---- MODULE Spec2Model ----
(***************************************************************************)
(* The React front end of the clinical assistant: App, FileUploader,       *)
(* Search and Chat, with the HTTP requests they keep in flight.  Each      *)
(* event handler, and each continuation of an async handler after an       *)
(* await, is one action; the effects (useEffect) a state change triggers   *)
(* are part of the action that makes the change.                           *)
(***************************************************************************)
EXTENDS Integers, Sequences, FiniteSets, TLC

\* ---------------------------------------------------------------- bounds
MaxUploads == 2
MaxSearches == 2
MaxChats == 2
\* chunks of a document, and the length of the longest result list
NumChunks == 2
MaxResults == 2

\* ------------------------------------------------------------ value sets
\* useState(null): no document uploaded yet
NULL == 0
\* what the user can type: nothing, blanks only, a real text
Texts == {"", " ", "q"}
\* a trim that leaves blanks in place
trimNothing(s) == s

\* String.prototype.trim on Texts
trim(s) == IF s = " " THEN "" ELSE s

\* the text of chunk p of document d
ChunkText(d, p) == <<d, p>>
\* one element of search_results
Result(d, p) == [chunk |-> ChunkText(d, p)]
\* a sequence without repetition
Distinct(s) == \A i, j \in DOMAIN s : i # j => s[i] # s[j]
\* the result lists /api/search can answer for document d: ranked chunks of d
SearchResultsFor(d) ==
    { [i \in DOMAIN ps |-> Result(d, ps[i])] :
        ps \in { s \in UNION { [1..n -> 1..NumChunks] : n \in 0..MaxResults } : Distinct(s) } }

\* the bodies /api/embed can answer with: null, a value that is not null but
\* falsy in JavaScript (an empty body gives the string ''), or an object
\* given as the set of the fields that pass handleNewEmbeddingsStatus's
\* tests: a truthy error, a truthy message, a numeric
\* successful_embeddings_count
NullData == {"null"}
EmptyBody == {"''"}
StatusData == {NullData, EmptyBody} \cup SUBSET {"error", "message", "count"}

VARIABLES
    App,            \* [uploadedDocData, embeddingStatus, selectedChunks]
    FileUploader,   \* [selectedFile, uploadStatus, error]
    Search,         \* [query, searchResults, isLoading, error, hasAttemptedEmbed]
    Chat,           \* [currentQuestion, chatHistory, isLoading, error]
    uploadCalls,    \* handleUpload invocations awaiting /api/upload
    searchCalls,    \* handleSearch invocations awaiting /api/embed or /api/search
    chatCalls,      \* handleQuestionSubmit invocations awaiting /api/chat
    nUpload, nSearch, nChat,   \* requests issued so far by each handler
    embedSucceeded, \* doc ids whose /api/embed request was answered with success
    embedFailed     \* doc ids whose /api/embed request failed

vars == <<App, FileUploader, Search, Chat, uploadCalls, searchCalls, chatCalls,
          nUpload, nSearch, nChat, embedSucceeded, embedFailed>>

\* the docId prop App passes to Search and Chat
docId == App.uploadedDocData

\* ------------------------------------------------- selectedChunks object
\* A JavaScript object is kept as its list of own properties in insertion
\* order, [key, value]; keys are result positions (0-based array indices).
ObjectKeySet(obj) == { obj[i].key : i \in DOMAIN obj }
HasKey(obj, k) == k \in ObjectKeySet(obj)
Get(obj, k) == (CHOOSE i \in DOMAIN obj : obj[i].key = k)
GetValue(obj, k) == obj[Get(obj, k)].value
\* delete that also drops every later key
RemoveKeysFrom(obj, k) == SelectSeq(obj, LAMBDA e : e.key < k)
\* delete obj[k]
RemoveKey(obj, k) == SelectSeq(obj, LAMBDA e : e.key # k)

\* the keys of a set of integers in ascending order
SortedKeys(K) ==
    CHOOSE s \in [1..Cardinality(K) -> K] : \A i, j \in 1..Cardinality(K) : i < j => s[i] < s[j]

\* Object.values in insertion order: what a buggy engine or a Map would give
ObjectValuesInsertionOrder(obj) == [i \in DOMAIN obj |-> obj[i].value]
\* Object.values: integer-like keys are enumerated in ascending numeric order
ObjectValues(obj) ==
    LET ks == SortedKeys(ObjectKeySet(obj))
    IN [i \in DOMAIN ks |-> GetValue(obj, ks[i])]

\* ------------------------------------------------------------------ Init
Init ==
    /\ App = [uploadedDocData |-> NULL, embeddingStatus |-> "null", selectedChunks |-> <<>>]
    /\ FileUploader = [selectedFile |-> FALSE, uploadStatus |-> "", error |-> ""]
    /\ Search = [query |-> "", searchResults |-> <<>>, isLoading |-> FALSE, error |-> "",
                 hasAttemptedEmbed |-> FALSE]
    /\ Chat = [currentQuestion |-> "", chatHistory |-> <<>>, isLoading |-> FALSE, error |-> ""]
    /\ uploadCalls = {}
    /\ searchCalls = {}
    /\ chatCalls = {}
    /\ nUpload = 0
    /\ nSearch = 0
    /\ nChat = 0
    /\ embedSucceeded = {}
    /\ embedFailed = {}

\* --------------------------------------------------------------- effects
\* Chat useEffect on [docId, selectedChunks]: runs whenever App replaces the
\* selectedChunks object or the doc id changes
ChatResetEffect(C) == [C EXCEPT !.chatHistory = <<>>, !.error = ""]

\* Search useEffect on [docId]: the new Search state (its call of
\* onSearchResultsUpdated is applied to App by the action that changes docId)
SearchDocIdEffect(S) ==
    [S EXCEPT !.query = "", !.searchResults = <<>>, !.error = "", !.hasAttemptedEmbed = FALSE]

\* App.handleNewEmbeddingsStatus: the new embeddingStatus
handleNewEmbeddingsStatus(prev, statusData) ==
    IF statusData \in {NullData, EmptyBody} THEN prev
    ELSE IF "error" \in statusData THEN "Embedding issue"
    ELSE IF "message" \in statusData THEN "message"
    ELSE IF "count" \in statusData THEN "Embeddings processed"
    ELSE "unknown format"

\* the toggle keyed by rank (1-based) instead of by array index
handleToggleChunkSelectionByRank(prev, resultIndex, chunkData) ==
    IF HasKey(prev, resultIndex + 1)
    THEN RemoveKey(prev, resultIndex + 1)
    ELSE Append(prev, [key |-> resultIndex + 1, value |-> chunkData])

\* App.handleToggleChunkSelection: the new selectedChunks
handleToggleChunkSelection(prev, resultIndex, chunkData) ==
    IF HasKey(prev, resultIndex)
    THEN RemoveKey(prev, resultIndex)
    ELSE Append(prev, [key |-> resultIndex, value |-> chunkData])

\* App.handleUploadSuccess(data): the new App state
handleUploadSuccess(A, data) ==
    [A EXCEPT !.uploadedDocData = data.doc_id, !.embeddingStatus = "null",
              !.selectedChunks = <<>>]

\* the onSearchResultsUpdated prop App gives Search: () => setSelectedChunks({})
onSearchResultsUpdatedNoop(A) == A
onSearchResultsUpdated(A) == [A EXCEPT !.selectedChunks = <<>>]

\* App useEffect on [uploadedDocData?.doc_id]
AppDocIdEffect(A) == [A EXCEPT !.selectedChunks = <<>>]

\* ---------------------------------------------------------- FileUploader
handleFileChange(file) ==
    /\ FileUploader' = [selectedFile |-> file, uploadStatus |-> "", error |-> ""]
    /\ UNCHANGED <<App, Search, Chat, uploadCalls, searchCalls, chatCalls,
                   nUpload, nSearch, nChat, embedSucceeded, embedFailed>>

\* the Upload button's disabled attribute
UploadButtonDisabled == FileUploader.uploadStatus = "uploading"

\* handleUpload up to its await of /api/upload
handleUpload ==
    /\ ~UploadButtonDisabled
    /\ IF ~FileUploader.selectedFile
       THEN /\ FileUploader' = [FileUploader EXCEPT !.error = "Please select a file first."]
            /\ UNCHANGED <<uploadCalls, nUpload>>
       ELSE /\ nUpload < MaxUploads
            /\ FileUploader' = [FileUploader EXCEPT !.uploadStatus = "uploading", !.error = ""]
            /\ nUpload' = nUpload + 1
            /\ uploadCalls' = uploadCalls \cup {nUpload + 1}
    /\ UNCHANGED <<App, Search, Chat, searchCalls, chatCalls, nSearch, nChat,
                   embedSucceeded, embedFailed>>

\* /api/upload answers upload u with the document's data; the server gives
\* every upload a doc id of its own.  handleUpload's try block, then
\* App.handleUploadSuccess and the effects of the components that depend on
\* the doc id or on the selectedChunks object.
UploadSuccess(u) ==
    /\ u \in uploadCalls
    /\ uploadCalls' = uploadCalls \ {u}
    /\ FileUploader' = [FileUploader EXCEPT !.uploadStatus = "success"]
    /\ LET data == [doc_id |-> u]
           A1 == handleUploadSuccess(App, data)
           changed == A1.uploadedDocData # App.uploadedDocData
       IN /\ App' = IF changed THEN onSearchResultsUpdated(AppDocIdEffect(A1)) ELSE A1
          /\ Search' = IF changed THEN SearchDocIdEffect(Search) ELSE Search
          /\ Chat' = ChatResetEffect(Chat)
    /\ UNCHANGED <<searchCalls, chatCalls, nUpload, nSearch, nChat,
                   embedSucceeded, embedFailed>>

\* a failure handler that also drops the selection and the results
UploadErrorClearsResults(u) ==
    /\ u \in uploadCalls
    /\ uploadCalls' = uploadCalls \ {u}
    /\ FileUploader' = [FileUploader EXCEPT !.uploadStatus = "error", !.error = "Upload failed."]
    /\ App' = onSearchResultsUpdated(App)
    /\ Search' = [Search EXCEPT !.searchResults = <<>>]
    /\ Chat' = ChatResetEffect(Chat)
    /\ UNCHANGED <<searchCalls, chatCalls, nUpload, nSearch, nChat,
                   embedSucceeded, embedFailed>>

\* /api/upload fails (conversion or transport error): handleUpload's catch
UploadError(u) ==
    /\ u \in uploadCalls
    /\ uploadCalls' = uploadCalls \ {u}
    /\ FileUploader' = [FileUploader EXCEPT !.uploadStatus = "error", !.error = "Upload failed."]
    /\ UNCHANGED <<App, Search, Chat, searchCalls, chatCalls, nUpload, nSearch, nChat,
                   embedSucceeded, embedFailed>>

\* ---------------------------------------------------------------- Search
\* the query input's onChange; the input is disabled without a document
setQuery(q) ==
    /\ docId # NULL
    /\ Search' = [Search EXCEPT !.query = q]
    /\ UNCHANGED <<App, FileUploader, Chat, uploadCalls, searchCalls, chatCalls,
                   nUpload, nSearch, nChat, embedSucceeded, embedFailed>>

\* the Search button's disabled attribute
SearchButtonIgnoresLoading == docId = NULL
SearchButtonDisabled == Search.isLoading \/ docId = NULL

\* the request handleSearch awaits first: /api/embed unless already attempted
FirstRequest(attempted) == IF attempted THEN "search" ELSE "embed"

\* handleSearch up to its first await.  The call keeps the docId and query
\* of the render it was started from.
handleSearch ==
    /\ ~SearchButtonDisabled
    /\ IF docId = NULL
       THEN /\ Search' = [Search EXCEPT !.error = "No document processed or selected."]
            /\ UNCHANGED <<App, Chat, searchCalls, nSearch>>
       ELSE IF trim(Search.query) = ""
       THEN /\ Search' = [Search EXCEPT !.error = "Please enter a search query."]
            /\ UNCHANGED <<App, Chat, searchCalls, nSearch>>
       ELSE /\ nSearch < MaxSearches
            /\ Search' = [Search EXCEPT !.isLoading = TRUE, !.error = "", !.searchResults = <<>>]
            /\ App' = onSearchResultsUpdated(App)
            /\ Chat' = ChatResetEffect(Chat)
            /\ nSearch' = nSearch + 1
            /\ searchCalls' = searchCalls \cup
                  {[id |-> nSearch + 1, awaiting |-> FirstRequest(Search.hasAttemptedEmbed),
                    docId |-> docId, query |-> Search.query]}
    /\ UNCHANGED <<FileUploader, uploadCalls, chatCalls, nUpload, nChat,
                   embedSucceeded, embedFailed>>

\* what the embed continuation does with the call once /api/embed has been
\* answered or has failed: it goes on to await /api/search
ContinueAfterEmbed(c) == {[c EXCEPT !.awaiting = "search"]}
\* the inner catch leaving handleSearch without reaching the search request
\* and the finally block
AbandonAfterEmbedError(c) == {}
\* the inner catch falls through to the search request
ContinueAfterEmbedError(c) == {[c EXCEPT !.awaiting = "search"]}

\* setHasAttemptedEmbed(true) after the embed response
AttemptedStaysUnset(S) == S
MarkAttempted(S) == [S EXCEPT !.hasAttemptedEmbed = TRUE]

\* /api/embed answers call c with body data: the inner try block, then the
\* /api/search request is sent
EmbedSuccess(c, data) ==
    /\ c \in searchCalls
    /\ c.awaiting = "embed"
    /\ Search' = MarkAttempted(Search)
    /\ App' = [App EXCEPT !.embeddingStatus = handleNewEmbeddingsStatus(@, data)]
    /\ searchCalls' = (searchCalls \ {c}) \cup ContinueAfterEmbed(c)
    /\ embedSucceeded' = embedSucceeded \cup {c.docId}
    /\ UNCHANGED <<FileUploader, Chat, uploadCalls, chatCalls, nUpload, nSearch, nChat,
                   embedFailed>>

\* /api/embed fails for call c: the inner catch, then the /api/search
\* request is sent all the same
EmbedError(c) ==
    /\ c \in searchCalls
    /\ c.awaiting = "embed"
    /\ Search' = [MarkAttempted(Search) EXCEPT !.error = "Warning: Search might be incomplete."]
    /\ searchCalls' = (searchCalls \ {c}) \cup ContinueAfterEmbedError(c)
    /\ embedFailed' = embedFailed \cup {c.docId}
    /\ UNCHANGED <<App, FileUploader, Chat, uploadCalls, chatCalls, nUpload, nSearch, nChat,
                   embedSucceeded>>

\* the error state after a successful search response with list r
ErrorAfterResultsUntouched(prev, r) == prev
ErrorAfterResults(prev, r) ==
    IF Len(r) = 0 THEN "No relevant chunks found for your query." ELSE prev

\* /api/search answers call c with the list r: the rest of the try block and
\* the finally block
SearchSuccess(c, r) ==
    /\ c \in searchCalls
    /\ c.awaiting = "search"
    /\ r \in SearchResultsFor(c.docId)
    /\ Search' = [Search EXCEPT !.searchResults = r,
                                !.error = ErrorAfterResults(@, r),
                                !.isLoading = FALSE]
    /\ searchCalls' = searchCalls \ {c}
    /\ UNCHANGED <<App, FileUploader, Chat, uploadCalls, chatCalls, nUpload, nSearch, nChat,
                   embedSucceeded, embedFailed>>

\* the error field of a failed response's body: absent (""), or the server's text
ServerErrors == {"", "Document ID not found."}
\* errorMsg of the outer catch: the server's text if there is one
SearchErrorMessageRaw(e) == e
SearchErrorMessage(e) == IF e # "" THEN e ELSE "Search failed. Please try again."

\* /api/search fails for call c with error text e: the outer catch and the
\* finally block
SearchError(c, e) ==
    /\ c \in searchCalls
    /\ c.awaiting = "search"
    /\ Search' = [Search EXCEPT !.error = SearchErrorMessage(e),
                                !.searchResults = <<>>,
                                !.isLoading = FALSE]
    /\ searchCalls' = searchCalls \ {c}
    /\ UNCHANGED <<App, FileUploader, Chat, uploadCalls, chatCalls, nUpload, nSearch, nChat,
                   embedSucceeded, embedFailed>>

\* the checkbox of the result at array index `index`:
\* onToggleChunkSelection(index, result)
onToggleChunkSelection(index) ==
    /\ index \in 0..(Len(Search.searchResults) - 1)
    /\ App' = [App EXCEPT !.selectedChunks =
                  handleToggleChunkSelection(@, index, Search.searchResults[index + 1])]
    /\ Chat' = ChatResetEffect(Chat)
    /\ UNCHANGED <<FileUploader, Search, uploadCalls, searchCalls, chatCalls,
                   nUpload, nSearch, nChat, embedSucceeded, embedFailed>>

\* the Clear Selections button, rendered while something is selected
handleClearSelectedChunks ==
    /\ Len(App.selectedChunks) > 0
    /\ App' = [App EXCEPT !.selectedChunks = <<>>]
    /\ Chat' = ChatResetEffect(Chat)
    /\ UNCHANGED <<FileUploader, Search, uploadCalls, searchCalls, chatCalls,
                   nUpload, nSearch, nChat, embedSucceeded, embedFailed>>

\* ------------------------------------------------------------------ Chat
setCurrentQuestion(q) ==
    /\ Chat' = [Chat EXCEPT !.currentQuestion = q]
    /\ UNCHANGED <<App, FileUploader, Search, uploadCalls, searchCalls, chatCalls,
                   nUpload, nSearch, nChat, embedSucceeded, embedFailed>>

\* selectedChunkTexts of handleQuestionSubmit
selectedChunkTexts(selected) ==
    IF Cardinality(ObjectKeySet(selected)) > 0
    THEN [i \in DOMAIN selected |-> ObjectValues(selected)[i].chunk]
    ELSE <<>>

\* the body of the /api/chat request; doc_id = NULL and context_chunks = <<>>
\* stand for a payload without that field
PayloadWithoutDocId(question, d, selected) ==
    [question |-> question, doc_id |-> NULL, context_chunks |-> selectedChunkTexts(selected)]
PayloadWithResults(question, d, selected) ==
    [question |-> question, doc_id |-> d,
     context_chunks |-> IF Len(selected) > 0 THEN selectedChunkTexts(selected)
                        ELSE [i \in DOMAIN Search.searchResults |-> Search.searchResults[i].chunk]]
payload(question, d, selected) ==
    [question |-> question,
     doc_id |-> IF d # NULL THEN d ELSE NULL,
     context_chunks |-> selectedChunkTexts(selected)]

\* handleQuestionSubmit up to its await of /api/chat
handleQuestionSubmit ==
    /\ ~Chat.isLoading
    /\ trim(Chat.currentQuestion) # ""
    /\ nChat < MaxChats
    /\ nChat' = nChat + 1
    /\ Chat' = [Chat EXCEPT !.chatHistory = Append(@, [type |-> "user", id |-> nChat + 1]),
                            !.currentQuestion = "",
                            !.isLoading = TRUE,
                            !.error = ""]
    /\ chatCalls' = chatCalls \cup
          {[id |-> nChat + 1, payload |-> payload(Chat.currentQuestion, docId, App.selectedChunks)]}
    /\ UNCHANGED <<App, FileUploader, Search, uploadCalls, searchCalls,
                   nUpload, nSearch, embedSucceeded, embedFailed>>

\* /api/chat answers call c: the rest of the try block and the finally block
ChatSuccess(c) ==
    /\ c \in chatCalls
    /\ chatCalls' = chatCalls \ {c}
    /\ Chat' = [Chat EXCEPT !.chatHistory = Append(@, [type |-> "ai", id |-> c.id]),
                            !.isLoading = FALSE]
    /\ UNCHANGED <<App, FileUploader, Search, uploadCalls, searchCalls,
                   nUpload, nSearch, nChat, embedSucceeded, embedFailed>>

\* /api/chat fails for call c: the catch and the finally block
ChatError(c) ==
    /\ c \in chatCalls
    /\ chatCalls' = chatCalls \ {c}
    /\ Chat' = [Chat EXCEPT !.error = "Failed to get AI response.", !.isLoading = FALSE]
    /\ UNCHANGED <<App, FileUploader, Search, uploadCalls, searchCalls,
                   nUpload, nSearch, nChat, embedSucceeded, embedFailed>>

\* ------------------------------------------------------------------ Next
Next ==
    \/ \E file \in BOOLEAN : handleFileChange(file)
    \/ handleUpload
    \/ \E u \in uploadCalls : UploadSuccess(u)
    \/ \E u \in uploadCalls : UploadError(u)
    \/ \E q \in Texts : setQuery(q)
    \/ handleSearch
    \/ \E c \in searchCalls, data \in StatusData : EmbedSuccess(c, data)
    \/ \E c \in searchCalls : EmbedError(c)
    \/ \E c \in searchCalls : \E r \in SearchResultsFor(c.docId) : SearchSuccess(c, r)
    \/ \E c \in searchCalls, e \in ServerErrors : SearchError(c, e)
    \/ \E index \in 0..(MaxResults - 1) : onToggleChunkSelection(index)
    \/ handleClearSelectedChunks
    \/ \E q \in Texts : setCurrentQuestion(q)
    \/ handleQuestionSubmit
    \/ \E c \in chatCalls : ChatSuccess(c)
    \/ \E c \in chatCalls : ChatError(c)

Spec == Init /\ [][Next]_vars


\* The upload and search side alone.  Chat's actions write only Chat,
\* chatCalls and nChat, so what holds of the other variables without them
\* holds with them.  The inputs that reach only FileUploader.error,
\* Search.error's validation messages and App.embeddingStatus are held to one
\* value: a file is always chosen, the query typed is "q", /api/embed
\* answers with counts.
NextSearch ==
    \/ handleFileChange(TRUE)
    \/ handleUpload
    \/ \E u \in uploadCalls : UploadSuccess(u)
    \/ \E u \in uploadCalls : UploadError(u)
    \/ setQuery("q")
    \/ handleSearch
    \/ \E c \in searchCalls : EmbedSuccess(c, {"count"})
    \/ \E c \in searchCalls : EmbedError(c)
    \/ \E c \in searchCalls : \E r \in SearchResultsFor(c.docId) : SearchSuccess(c, r)
    \/ \E c \in searchCalls, e \in ServerErrors : SearchError(c, e)
    \/ \E index \in 0..(MaxResults - 1) : onToggleChunkSelection(index)
    \/ handleClearSelectedChunks

SpecSearch == Init /\ [][NextSearch]_vars

\* the requests of handleSearch come back: each awaited axios.post resolves
\* or rejects
EmbedResponse == \E c \in searchCalls : EmbedSuccess(c, {"count"}) \/ EmbedError(c)
SearchResponse ==
    \E c \in searchCalls :
        \/ \E r \in SearchResultsFor(c.docId) : SearchSuccess(c, r)
        \/ \E e \in ServerErrors : SearchError(c, e)
\* SpecSearch where every HTTP request of a search eventually returns or fails
SpecSearchFair == SpecSearch /\ WF_vars(EmbedResponse) /\ WF_vars(SearchResponse)

\* NextSearch with every body /api/embed can answer with
NextStatus ==
    \/ handleFileChange(TRUE)
    \/ handleUpload
    \/ \E u \in uploadCalls : UploadSuccess(u)
    \/ \E u \in uploadCalls : UploadError(u)
    \/ setQuery("q")
    \/ handleSearch
    \/ \E c \in searchCalls, data \in StatusData : EmbedSuccess(c, data)
    \/ \E c \in searchCalls : EmbedError(c)
    \/ \E c \in searchCalls : \E r \in SearchResultsFor(c.docId) : SearchSuccess(c, r)
    \/ \E c \in searchCalls : SearchError(c, "")
    \/ \E index \in 0..(MaxResults - 1) : onToggleChunkSelection(index)
    \/ handleClearSelectedChunks

SpecStatus == Init /\ [][NextStatus]_vars

\* NextSearch with everything the user can type into the query input
NextQuery ==
    \/ handleFileChange(TRUE)
    \/ handleUpload
    \/ \E u \in uploadCalls : UploadSuccess(u)
    \/ \E u \in uploadCalls : UploadError(u)
    \/ \E q \in Texts : setQuery(q)
    \/ handleSearch
    \/ \E c \in searchCalls : EmbedSuccess(c, {"count"})
    \/ \E c \in searchCalls : EmbedError(c)
    \/ \E c \in searchCalls : \E r \in SearchResultsFor(c.docId) : SearchSuccess(c, r)
    \/ \E c \in searchCalls : SearchError(c, "")
    \/ \E index \in 0..(MaxResults - 1) : onToggleChunkSelection(index)
    \/ handleClearSelectedChunks

SpecQuery == Init /\ [][NextQuery]_vars

\* NextSearch with Chat's actions
NextChat ==
    \/ handleFileChange(TRUE)
    \/ handleUpload
    \/ \E u \in uploadCalls : UploadSuccess(u)
    \/ \E u \in uploadCalls : UploadError(u)
    \/ setQuery("q")
    \/ handleSearch
    \/ \E c \in searchCalls : EmbedSuccess(c, {"count"})
    \/ \E c \in searchCalls : EmbedError(c)
    \/ \E c \in searchCalls : \E r \in SearchResultsFor(c.docId) : SearchSuccess(c, r)
    \/ \E c \in searchCalls : SearchError(c, "")
    \/ \E index \in 0..(MaxResults - 1) : onToggleChunkSelection(index)
    \/ handleClearSelectedChunks
    \/ \E q \in Texts : setCurrentQuestion(q)
    \/ handleQuestionSubmit
    \/ \E c \in chatCalls : ChatSuccess(c)
    \/ \E c \in chatCalls : ChatError(c)

SpecChat == Init /\ [][NextChat]_vars

\* ------------------------------------------------------- shared notions
\* the handleSearch calls started by this step
NewSearchCalls == { c \in searchCalls' : c.id > nSearch }
\* the requests this step sends to /api/embed and to /api/search
EmbedRequestsSent == { c \in searchCalls' \ searchCalls : c.awaiting = "embed" }
SearchRequestsSent == { c \in searchCalls' \ searchCalls : c.awaiting = "search" }
\* the /api/chat requests this step sends
ChatRequestsSent == chatCalls' \ chatCalls
\* the document a selected or displayed chunk comes from
DocOf(chunkData) == chunkData.chunk[1]
\* the texts of the results the selection holds, in ascending result position
RECURSIVE SelectedTextsUpTo(_, _, _)
SelectedTextsUpTo(results, selected, n) ==
    IF n = 0 THEN <<>>
    ELSE IF HasKey(selected, n - 1)
         THEN Append(SelectedTextsUpTo(results, selected, n - 1), results[n].chunk)
         ELSE SelectedTextsUpTo(results, selected, n - 1)
SelectedTextsInResultOrder(results, selected) ==
    SelectedTextsUpTo(results, selected, Len(results))

\* ------------------------------------------------------------------- C1
\* C1: the SelectionSet is empty right after every step that changes the
\* active document and right after every step that starts a search (one
\* that passed handleSearch's validation), whatever was selected before.
C1_SelectionClearedOnUploadAndSearch ==
    [][(docId' # docId \/ NewSearchCalls # {}) => App'.selectedChunks = <<>>]_vars

\* a second search was started on a second document: both clearing steps ran
C1_Witness ==
    /\ docId = 2
    /\ \E c \in searchCalls : c.id = 2 /\ c.docId = 2
    /\ App.selectedChunks = <<>>

\* ------------------------------------------------------------------- C2
\* C2: in every reachable state every chunk held in the SelectionSet comes
\* from the currently active document.
C2_SelectionFromActiveDocument ==
    \A i \in DOMAIN App.selectedChunks : DocOf(App.selectedChunks[i].value) = docId

\* ------------------------------------------------------------------- C3
\* C3: a chat request sent while the SelectionSet is non-empty carries as
\* context_chunks exactly the texts of the selected results in ascending
\* result position, whatever the order of the toggles.
C3_ContextInResultOrder ==
    [][\A c \in ChatRequestsSent :
          Len(App.selectedChunks) > 0 =>
             c.payload.context_chunks =
                SelectedTextsInResultOrder(Search.searchResults, App.selectedChunks)]_vars

\* a request in flight whose two chunks were toggled last-first, and whose
\* result order is the reverse of their order in the document
C3_Witness ==
    \E c \in chatCalls :
       /\ Len(App.selectedChunks) = 2
       /\ App.selectedChunks[1].key = 1
       /\ App.selectedChunks[2].key = 0
       /\ c.payload.context_chunks = <<ChunkText(docId, 2), ChunkText(docId, 1)>>

C5_DocIdExactlyWhenActive ==
    /\ [](docId = NULL => App.selectedChunks = <<>>)
    /\ [][\A c \in ChatRequestsSent :
             /\ c.payload.doc_id = docId
             /\ docId = NULL => c.payload.context_chunks = <<>>]_vars

\* a question in flight that was asked while no document is active
C5_Witness ==
    \E c \in chatCalls :
       /\ docId = NULL
       /\ c.payload.doc_id = NULL
       /\ c.payload.context_chunks = <<>>

\* ------------------------------------------------------------------- C6
\* C6: at most one handleSearch call is in flight, so at most one embedding
\* request and at most one search request of the Search component are
\* outstanding, also when the active document changes meanwhile.
C6_AtMostOneSearchInFlight ==
    /\ Cardinality(searchCalls) <= 1
    /\ searchCalls # {} => Search.isLoading

\* a call still in flight for a document that is no longer the active one
C6_Witness ==
    \E c \in searchCalls : c.docId # docId /\ Search.isLoading

\* ------------------------------------------------------------------- C7
\* C7: every search request sent for a document d is preceded by an
\* embedding request for d that has been answered (d was active when it was
\* sent: handleSearch only ever embeds the active document).
C7_EmbedAnsweredBeforeSearch ==
    [][\A c \in SearchRequestsSent : c.docId \in embedSucceeded' \cup embedFailed']_vars

\* ------------------------------------------------------------------- C8
\* C8: once an embedding request for the active document has succeeded, no
\* later step sends a further embedding request while that document is
\* active.
C8_NoEmbedAfterSuccess ==
    [][(docId \in embedSucceeded) => (EmbedRequestsSent = {})]_vars

\* the second search on the one uploaded document went straight to
\* /api/search, the first one's embedding request having succeeded
C8_Witness ==
    /\ nUpload = 1
    /\ docId \in embedSucceeded
    /\ \E c \in searchCalls : c.id = 2 /\ c.docId = docId /\ c.awaiting = "search"

\* ------------------------------------------------------------------- C9
\* C9: no search request is sent for a document whose embedding attempt has
\* failed.
C9_NoSearchAfterEmbedFailure ==
    [][\A c \in SearchRequestsSent : c.docId \notin embedFailed']_vars

\* ------------------------------------------------------------------ C10
\* C10 as claimed: a search answered with an empty result list leaves the
\* Search component without an error, when it had none before the answer.
C10_EmptyResultNoErrorState ==
    [][(\E c \in searchCalls : SearchSuccess(c, <<>>) /\ Search.error = "")
          => Search'.error = ""]_vars

\* C10 amended: a search answered with an empty result list completes with
\* empty results and isLoading false, and sets the error state to the
\* notice "No relevant chunks found for your query." (never to the message
\* of a failed search).
C10_EmptyResultSetsNotice ==
    [][(\E c \in searchCalls : SearchSuccess(c, <<>>))
          => /\ Search'.searchResults = <<>>
             /\ ~Search'.isLoading
             /\ Search'.error = "No relevant chunks found for your query."]_vars

\* the state after such an answer
C10_Witness ==
    /\ Search.error = "No relevant chunks found for your query."
    /\ Search.searchResults = <<>>
    /\ ~Search.isLoading
    /\ searchCalls = {}

\* C11: a failed /api/search request always ends in a visible error: after the
\* failure the error state is non-empty, the result list is empty, the
\* message is not the notice of a successful empty result, and the loading
\* flag is back to false.
C11_FailedSearchShowsError ==
    [][\A c \in searchCalls, e \in ServerErrors :
          SearchError(c, e) =>
             /\ Search'.error # ""
             /\ Search'.searchResults = <<>>
             /\ Search'.error # ErrorAfterResults("", <<>>)
             /\ ~Search'.isLoading]_vars
\* a search has failed without an error text from the server and its
\* fallback message is on display over an empty list
C11_Witness ==
    /\ Search.error = "Search failed. Please try again."
    /\ Search.searchResults = <<>>
    /\ ~Search.isLoading
    /\ nSearch > 0
    /\ searchCalls = {}

\* C12: in every reachable state the selection is a subset of the current
\* search results keyed by result position: every key of selectedChunks is
\* an index of searchResults and its value is the result at that index.
C12_SelectionSubsetOfResults ==
    \A i \in DOMAIN App.selectedChunks :
        LET e == App.selectedChunks[i]
        IN /\ e.key \in 0..(Len(Search.searchResults) - 1)
           /\ e.value = Search.searchResults[e.key + 1]
\* only the second of two results is selected
C12_Witness ==
    /\ Len(Search.searchResults) = 2
    /\ ObjectKeySet(App.selectedChunks) = {1}
    /\ GetValue(App.selectedChunks, 1) = Search.searchResults[2]

\* C13: if the embedding attempt for the active document failed (and none
\* succeeded), a subsequent search on that same document triggers another
\* embedding attempt: the search started then first awaits /api/embed.
C13_RetryEmbedAfterFailure ==
    [][(docId \in embedFailed \ embedSucceeded) =>
          (\A c \in NewSearchCalls : c.docId = docId => c.awaiting = "embed")]_vars

\* the status the claim's precedence gives for an embed response
ClaimedEmbeddingStatus(prev, statusData) ==
    IF statusData = NullData THEN prev
    ELSE IF "error" \in statusData THEN "Embedding issue"
    ELSE IF "message" \in statusData THEN "message"
    ELSE IF "count" \in statusData THEN "Embeddings processed"
    ELSE "unknown format"

\* C14: handleNewEmbeddingsStatus maps the embed response to the displayed
\* status by fixed precedence: error, then message, then the counts; any
\* other non-null value gives the unknown-format message; null leaves the
\* previous status unchanged.
C14_StatusPrecedence ==
    [][\A c \in searchCalls, data \in StatusData :
          EmbedSuccess(c, data) =>
             App'.embeddingStatus = ClaimedEmbeddingStatus(App.embeddingStatus, data)]_vars

\* the contents of a selectedChunks object: its keys with their values
Contents(obj) == [k \in ObjectKeySet(obj) |-> GetValue(obj, k)]

\* C15: toggling a result position adds it to the selection when absent and
\* removes it when present, changes no other key, and toggling the same
\* position twice in a row restores the previous contents of the selection.
C15_ToggleAddsRemovesRestores ==
    \A index \in 0..(Len(Search.searchResults) - 1) :
        LET chunkData == Search.searchResults[index + 1]
            prev == App.selectedChunks
            once == handleToggleChunkSelection(prev, index, chunkData)
            twice == handleToggleChunkSelection(once, index, chunkData)
        IN /\ HasKey(once, index) <=> ~HasKey(prev, index)
           /\ HasKey(once, index) => GetValue(once, index) = chunkData
           /\ ObjectKeySet(once) \ {index} = ObjectKeySet(prev) \ {index}
           /\ \A k \in ObjectKeySet(prev) \ {index} : GetValue(once, k) = GetValue(prev, k)
           /\ Len(once) = Cardinality(ObjectKeySet(once))
           /\ Contents(twice) = Contents(prev)
\* both results are selected, the second one first: toggles have added keys
\* in an order that differs from the key order
C15_Witness ==
    /\ Len(App.selectedChunks) = 2
    /\ App.selectedChunks[1].key = 1
    /\ App.selectedChunks[2].key = 0
    /\ Len(Search.searchResults) = 2

\* C16: the chat history is reset only when docId changes or the selection
\* is cleared: a step that empties a non-empty history changes docId or
\* takes the selection from non-empty to empty (so adding a chunk, or a
\* search while nothing is selected, leaves the history intact).
C16_HistoryResetOnlyOnDocOrClear ==
    [][(Chat.chatHistory # <<>> /\ Chat'.chatHistory = <<>>) =>
          \/ docId' # docId
          \/ (App.selectedChunks # <<>> /\ App'.selectedChunks = <<>>)]_vars

\* C17: in every reachable chat history every 'ai' entry is immediately
\* preceded by the 'user' entry whose question it answers, also when the
\* document or the selection changes while a chat request is in flight.
C17_AnswerFollowsItsQuestion ==
    \A i \in DOMAIN Chat.chatHistory :
        Chat.chatHistory[i].type = "ai" =>
            /\ i > 1
            /\ Chat.chatHistory[i - 1] = [type |-> "user", id |-> Chat.chatHistory[i].id]

\* C18: after the active document changes, Search's results stay reset until
\* a search on the new document: in every reachable state the results on
\* display were returned for the currently active document, also when a
\* search for the previous document was in flight at the change.
C18_ResultsOfActiveDocument ==
    \A i \in DOMAIN Search.searchResults : DocOf(Search.searchResults[i]) = docId

\* C19: after a successful upload the embedding status on display is null
\* until an embedding response for the newly active document arrives: a
\* status is shown only if /api/embed has answered for the active document.
C19_StatusOfActiveDocument ==
    App.embeddingStatus # "null" => docId \in embedSucceeded

\* C20: while an upload request is in flight the Upload control stays
\* disabled, so at most one upload request is outstanding at any time.
C20_OneUploadAtATime ==
    /\ uploadCalls # {} => UploadButtonDisabled
    /\ Cardinality(uploadCalls) <= 1

\* C21: a failed upload leaves the active document, the embedding status,
\* the search results and the selection unchanged: a step that ends an
\* upload request with status 'error' changes nothing in App and Search,
\* and in the uploader only the status and the (non-empty) error message.
C21_FailedUploadFrame ==
    [][(uploadCalls' \subseteq uploadCalls /\ uploadCalls' # uploadCalls
        /\ FileUploader'.uploadStatus = "error") =>
          /\ App' = App
          /\ Search' = Search
          /\ FileUploader'.selectedFile = FileUploader.selectedFile
          /\ FileUploader'.error # ""]_vars
\* the second upload has failed while the first document is active with
\* results on display and a chunk selected
C21_Witness ==
    /\ FileUploader.uploadStatus = "error"
    /\ nUpload = 2
    /\ uploadCalls = {}
    /\ docId = 1
    /\ Search.searchResults # <<>>
    /\ App.selectedChunks # <<>>
    /\ App.embeddingStatus # "null"

\* C22: a search rejected by validation (no active document, or an empty or
\* whitespace-only query) sends no embedding or search request and changes
\* nothing except the error message: results, selection, loading flag and
\* embed-attempted flag (and the chat) are as before.
C22_RejectedSearchFrame ==
    [][(handleSearch /\ (docId = NULL \/ Search.query \in {"", " "})) =>
          /\ searchCalls' = searchCalls
          /\ nSearch' = nSearch
          /\ App' = App
          /\ Chat' = Chat
          /\ Search' = [Search EXCEPT !.error = Search'.error]
          /\ Search'.error # ""]_vars
\* a whitespace-only query was rejected while results are on display and a
\* chunk is selected
C22_Witness ==
    /\ Search.error = "Please enter a search query."
    /\ Search.query = " "
    /\ Search.searchResults # <<>>
    /\ App.selectedChunks # <<>>
    /\ ~Search.isLoading
    /\ searchCalls = {}

\* C23: every started search eventually finishes: provided each HTTP request
\* eventually returns or fails, isLoading eventually becomes false again
\* after handleSearch has set it, on every path.
C23_SearchEventuallyFinishes == Search.isLoading ~> ~Search.isLoading
\* a search has finished through the embed-failure path: the embedding
\* request failed, the search request was answered, the button is enabled
C23_Witness ==
    /\ ~Search.isLoading
    /\ searchCalls = {}
    /\ nSearch = 1
    /\ docId \in embedFailed \ embedSucceeded
    /\ Search.hasAttemptedEmbed
    /\ Search.searchResults # <<>>

\* C24: a failed chat request is surfaced without corrupting the
\* conversation: after the failure the chat error is non-empty, the
\* submitted user question is still in the history, no 'ai' entry was added
\* for it, and isLoading is false.
C24_FailedChatKeepsQuestion ==
    [][\A c \in chatCalls :
          ChatError(c) =>
             /\ Chat'.error # ""
             /\ ~Chat'.isLoading
             /\ \E i \in DOMAIN Chat'.chatHistory :
                   Chat'.chatHistory[i] = [type |-> "user", id |-> c.id]
             /\ \A i \in DOMAIN Chat'.chatHistory :
                   Chat'.chatHistory[i] # [type |-> "ai", id |-> c.id]]_vars

====
